---- MODULE Spec2Model ----
(***************************************************************************)
(* Vocab Learning Assistant (src/index.tsx, the version that starts at     *)
(* line 1130): the spaced-repetition state of the App component.           *)
(*                                                                         *)
(* Time.  Date.now() counts milliseconds; every duration of the program is *)
(* a whole number of seconds except the 1500 ms feedback timer, and        *)
(* 2160 h in milliseconds does not fit a 32-bit integer, so one unit of    *)
(* model time is one second (1000 ms).                                     *)
(*                                                                         *)
(* Numbers.  A JavaScript number that is NaN (or an `undefined` that the   *)
(* program uses in arithmetic, which gives NaN) is the value NaN below;    *)
(* Plus, MathMin, MathMax and LessEq compute as JavaScript does on it.     *)
(*                                                                         *)
(* React.  setVocabList(updater) and setTheme(v) queue an update; the      *)
(* next render applies the queued updates in order and then runs the       *)
(* effects whose dependencies changed.  A handler run by a user event is   *)
(* rendered before the next event, so such an action contains its render;  *)
(* updates queued from effects and from promise continuations wait for     *)
(* the action Render.                                                      *)
(***************************************************************************)
EXTENDS Integers, Sequences, FiniteSets, TLC

VARIABLES
    now,              \* Date.now(), in seconds
    store,            \* localStorage['vocabList']
    storeTheme,       \* localStorage['vocabTheme']
    strictEffects,    \* TRUE in a development build: StrictMode runs mount effects twice
    pc,               \* "boot" (first render done, mount effects not yet run), "ready",
                      \* or "crashed" (a render threw: React unmounted the tree)
    vocabList,        \* useState<VocabData[]>: the rendered list
    updates,          \* queued state updates waiting for the next render
    theme,            \* useState<Theme>
    wordsForReviewCount, \* useMemo(..., [vocabList]): the due count of the last list render
    isLoading,        \* useState(false)
    error,            \* useState<string | null>
    fetch,            \* the pending fetchVocabData call, if any
    isModalOpen,      \* useState(false)
    showReviewPrompt, \* useState(false)
    isReviewing,      \* useState(false)
    reviewItems,      \* useState<ReviewItem[]>
    session,          \* state of the mounted ReviewSession component
    allDueMeanings,   \* the local allDueMeanings of the last startReviewSession
    ingested,         \* history: the newVocab of each fetchVocabData that succeeded, and its Date.now()
    answered,         \* the <<wordId, meaningIndex>> handleQuizComplete was called with
    budget,           \* how many clock ticks, outcomes and fetches the run may still take
    validation,       \* a call of validateApiResponse: its argument and how it ended
    cardsComplete     \* the <<vocab.id, index>> of the cards whose QuizContainer has isComplete true

vars == <<now, store, storeTheme, strictEffects, pc, vocabList, updates, theme,
          wordsForReviewCount, isLoading, error, fetch, isModalOpen, showReviewPrompt, isReviewing,
          reviewItems, session, allDueMeanings, ingested, answered, budget, validation,
          cardsComplete>>

---------------------------------------------------------------------------
(* Bounds of the model *)

MaxTicks == 2         \* clock advances per run
MaxOutcomes == 2      \* handleQuizComplete calls per run
MaxLearn == 1         \* fetches started per run
AppSteps == 1         \* ticks, outcomes and fetches of a run of the whole application
MaxFullShuffle == 3   \* sessions up to this length are shuffled into every order
MaxSessionItems == 6  \* items of a list drawn for the session-building specification

TickSteps == {1, 5 * 60, 4 * 60 * 60}

---------------------------------------------------------------------------
(* JavaScript numbers *)

NaN == -1000000

Plus(a, b) == IF a = NaN \/ b = NaN THEN NaN ELSE a + b

MathMin(a, b) == IF a = NaN \/ b = NaN THEN NaN ELSE IF a <= b THEN a ELSE b

MathMax(a, b) == IF a = NaN \/ b = NaN THEN NaN ELSE IF a >= b THEN a ELSE b

\* a <= b of two numbers: false when either is NaN
LessEq(a, b) == a # NaN /\ b # NaN /\ a <= b

\* arr[i] of a zero-indexed number array; undefined (NaN in arithmetic) outside it
At(arr, i) == IF i # NaN /\ i >= 0 /\ i < Len(arr) THEN arr[i + 1] ELSE NaN

\* hours * 60 * 60 * 1000 milliseconds, in seconds
HoursMs(h) == IF h = NaN THEN NaN ELSE h * 60 * 60

\* 5 * 60 * 1000 milliseconds, in seconds
FiveMinutesMs == 5 * 60

\* the 30000 ms of the fetch timeout, in seconds
TimeoutMs == 30

---------------------------------------------------------------------------
(* Constants of the program *)

srsIntervalsHours == <<4, 8, 24, 72, 168, 336, 720, 2160>>

maxLevel == Len(srsIntervalsHours)

SessionCap == 10

MASTERY_THRESHOLD == 6

themes == {"violet-yellow", "blue-green", "monochromatic"}

---------------------------------------------------------------------------
(* Data *)

\* A Meaning: its content fields stand as one token; a hole of a sparse
\* meanings array is the Meaning Hole.
Meaning(c, level, date) == [content |-> c, srs_level |-> level, next_review_date |-> date]

Hole == Meaning("hole", NaN, NaN)

\* { ...undefined }: an object with no field
NoFields == Meaning("undefined", NaN, NaN)

VocabData(id, word, meanings) == [id |-> id, word |-> word, meanings |-> meanings]

ReviewItem(word, meaning, meaningIndex, wordId) ==
    [word |-> word, meaning |-> meaning, meaningIndex |-> meaningIndex, wordId |-> wordId]

\* arr[k] of a zero-indexed meanings array (undefined outside it)
MeaningAt(arr, k) == IF k >= 0 /\ k < Len(arr) THEN arr[k + 1] ELSE NoFields

\* arr[k] = v on a copy of a zero-indexed array; an index past the end grows the
\* array and leaves holes.
SetMeaningAt(arr, k, v) ==
    [j \in 1..(IF k + 1 > Len(arr) THEN k + 1 ELSE Len(arr)) |->
        IF j = k + 1 THEN v ELSE IF j <= Len(arr) THEN arr[j] ELSE Hole]

---------------------------------------------------------------------------
(* handleQuizComplete: the schedule of one Meaning after an outcome *)

\* a level that is not capped
levelUncapped(level) == Plus(level, 1)

\* Math.min(meaning.srs_level + 1, srsIntervalsHours.length)
levelAfterCorrect(level) == MathMin(Plus(level, 1), Len(srsIntervalsHours))

\* the interval read one entry too far
dateOfNextInterval(newLevel, t) == Plus(t, HoursMs(At(srsIntervalsHours, newLevel)))

\* Date.now() + srsIntervalsHours[meaning.srs_level - 1] * 60 * 60 * 1000
dateAfterCorrect(newLevel, t) ==
    Plus(t, HoursMs(At(srsIntervalsHours, Plus(newLevel, -1))))

\* a level that has no floor
levelUnfloored(level) == Plus(level, -1)

\* Math.max(0, meaning.srs_level - 1)
levelAfterIncorrect(level) == MathMax(0, Plus(level, -1))

\* a retry delay of ten minutes
dateAfterTenMinutes(t) == Plus(t, 2 * FiveMinutesMs)

\* Date.now() + 5 * 60 * 1000
dateAfterIncorrect(t) == Plus(t, FiveMinutesMs)

\* const meaning = { ...newMeanings[meaningIndex] } and the branch on isCorrect
updatedMeaning(old, isCorrect, t) ==
    LET copy == IF old.content = "hole" THEN NoFields ELSE old
        up == levelAfterCorrect(copy.srs_level)
        down == levelAfterIncorrect(copy.srs_level)
    IN  IF isCorrect
        THEN [copy EXCEPT !.srs_level = up, !.next_review_date = dateAfterCorrect(up, t)]
        ELSE [copy EXCEPT !.srs_level = down, !.next_review_date = dateAfterIncorrect(t)]

\* an updater that starts from the Meaning held by the item the session shows
quizFromSnapshot(currentList, wordId, meaningIndex, isCorrect, t) ==
    LET shown == isReviewing /\ session.currentIndex < Len(reviewItems)
        item == reviewItems[session.currentIndex + 1]
        fromItem == IF shown THEN item.wordId = wordId /\ item.meaningIndex = meaningIndex
                    ELSE FALSE
    IN  [i \in 1..Len(currentList) |->
            IF currentList[i].id = wordId
            THEN [currentList[i] EXCEPT !.meanings =
                     SetMeaningAt(@, meaningIndex,
                                  updatedMeaning(IF fromItem THEN item.meaning
                                                 ELSE MeaningAt(@, meaningIndex),
                                                 isCorrect, t))]
            ELSE currentList[i]]

\* the updater handleQuizComplete passes to setVocabList, run at time t
quizUpdater(currentList, wordId, meaningIndex, isCorrect, t) ==
    [i \in 1..Len(currentList) |->
        IF currentList[i].id = wordId
        THEN [currentList[i] EXCEPT !.meanings =
                 SetMeaningAt(@, meaningIndex,
                              updatedMeaning(MeaningAt(@, meaningIndex), isCorrect, t))]
        ELSE currentList[i]]

---------------------------------------------------------------------------
(* localStorage['vocabList'] and the load effect *)

\* A meaning of the persisted JSON.  shape: "ok" (an object with
\* multiple_choice.options, gap_fill_prompt and one_word_arabic), "null" (null,
\* an array or not an object), "nomc" (no multiple_choice.options array),
\* "nofields" (gap_fill_prompt or one_word_arabic is not a string).
RawMeaning(shape, c, hasLevel, hasDate, level, date) ==
    [shape |-> shape, content |-> c, hasLevel |-> hasLevel, hasDate |-> hasDate,
     srs_level |-> level, next_review_date |-> date]

\* An item of the persisted JSON.  shape: "ok" (an object with a meanings array
\* and a string word) or "bad".
RawItem(shape, id, word, meanings) ==
    [shape |-> shape, id |-> id, word |-> word, meanings |-> meanings]

\* The value under the key: kind "null" (no value), "text" (text JSON.parse
\* rejects) or "json" (a parsed value, an array or not).
Stored(kind, isArray, items) == [kind |-> kind, isArray |-> isArray, items |-> items]

NoStore == Stored("null", FALSE, <<>>)

\* JSON.stringify of a number: NaN becomes null
JsonNull == -2000000

JsonNumber(x) == IF x = NaN THEN JsonNull ELSE x

\* JSON.stringify(vocabList)
Serialize(list) ==
    Stored("json", TRUE,
        [i \in 1..Len(list) |->
            RawItem("ok", list[i].id, list[i].word,
                [k \in 1..Len(list[i].meanings) |->
                    LET m == list[i].meanings[k] IN
                    IF m.content = "hole"
                    THEN RawMeaning("null", "hole", FALSE, FALSE, 0, 0)
                    ELSE RawMeaning(IF m.content = "undefined" THEN "nomc" ELSE "ok",
                                    m.content, TRUE, TRUE,
                                    JsonNumber(m.srs_level),
                                    JsonNumber(m.next_review_date))])])

\* the body of item.meanings.map(...) of the load effect, run at time t:
\* <<kept, meaning>>
migrateMeaning(m, t) ==
    IF m.shape # "ok" THEN <<FALSE, Hole>>
    ELSE IF m.hasLevel /\ m.hasDate
         THEN <<TRUE, Meaning(m.content, m.srs_level, m.next_review_date)>>
         ELSE <<TRUE, Meaning(m.content, 0, t)>>

\* item.meanings.map(...).filter(Boolean)
validMeanings(raw, t) ==
    LET mapped == [k \in 1..Len(raw) |-> migrateMeaning(raw[k], t)]
        IsKept(x) == x[1]
        kept == SelectSeq(mapped, IsKept)
    IN  [k \in 1..Len(kept) |-> kept[k][2]]

\* a load that keeps the items left with no valid meaning
migratedWithEmpty(items, t) ==
    LET IsItem(x) == x.shape = "ok"
        good == SelectSeq(items, IsItem)
    IN  [i \in 1..Len(good) |->
            VocabData(good[i].id, good[i].word, validMeanings(good[i].meanings, t))]

\* parsedList.filter(...).map(...).filter(item => item.meanings.length > 0)
migratedList(items, t) ==
    LET IsItem(x) == x.shape = "ok"
        good == SelectSeq(items, IsItem)
        mapped == [i \in 1..Len(good) |->
                      VocabData(good[i].id, good[i].word, validMeanings(good[i].meanings, t))]
        HasMeaning(x) == Len(x.meanings) > 0
    IN  SelectSeq(mapped, HasMeaning)

---------------------------------------------------------------------------
(* startReviewSession: the due collection and the session built from it *)

\* a due test that every Meaning passes
isListed(meaning, t) == meaning.content # "hole"

\* a Meaning due only once its date is past
isPastDue(meaning, t) ==
    meaning.content # "hole" /\ meaning.next_review_date # t /\ LessEq(meaning.next_review_date, t)

\* meaning.next_review_date <= now (forEach skips the holes of a sparse array)
isDue(meaning, t) == meaning.content # "hole" /\ LessEq(meaning.next_review_date, t)

\* item.meanings.forEach(...): the ReviewItems pushed for one item
dueOfItem(item, t) ==
    LET Due(k) == isDue(item.meanings[k], t)
        idx == SelectSeq([k \in 1..Len(item.meanings) |-> k], Due)
    IN  [j \in 1..Len(idx) |->
            ReviewItem(item.word, item.meanings[idx[j]], idx[j] - 1, item.id)]

RECURSIVE collectDue(_, _)
\* vocabList.forEach(item => item.meanings.forEach(...)): allDueMeanings
collectDue(list, t) ==
    IF list = <<>> THEN <<>>
    ELSE dueOfItem(Head(list), t) \o collectDue(Tail(list), t)

\* (a, b) => a.meaning.srs_level - b.meaning.srs_level; sort reads NaN as +0
compareLevels(a, b) ==
    IF a.meaning.srs_level = NaN \/ b.meaning.srs_level = NaN THEN 0
    ELSE a.meaning.srs_level - b.meaning.srs_level

RECURSIVE InsertSorted(_, _)
InsertSorted(s, x) ==
    IF s = <<>> THEN <<x>>
    ELSE IF compareLevels(Head(s), x) <= 0
         THEN <<Head(s)>> \o InsertSorted(Tail(s), x)
         ELSE <<x>> \o s

\* a session built in the order of collection
unsorted(s) == s

RECURSIVE sortByLevel(_)
\* allDueMeanings.sort(...): Array.prototype.sort is stable
sortByLevel(s) ==
    IF s = <<>> THEN <<>>
    ELSE InsertSorted(sortByLevel(SubSeq(s, 1, Len(s) - 1)), s[Len(s)])

\* a session of one item more
itemsPastCap(sorted) ==
    SubSeq(sorted, 1, IF Len(sorted) < SessionCap + 1 THEN Len(sorted) ELSE SessionCap + 1)

\* allDueMeanings.slice(0, 10)
itemsForReview(sorted) ==
    SubSeq(sorted, 1, IF Len(sorted) < SessionCap THEN Len(sorted) ELSE SessionCap)

Rotate(s, r) == [i \in 1..Len(s) |-> s[((i - 1 + r) % Len(s)) + 1]]

Reverse(s) == [i \in 1..Len(s) |-> s[Len(s) + 1 - i]]

\* itemsForReview.sort(() => Math.random() - 0.5): some order of the same
\* items.  Every order for a session of at most MaxFullShuffle items; for a
\* longer one the rotations of the sequence, and its reverse.
shuffles(s) ==
    IF Len(s) <= MaxFullShuffle
    THEN {[i \in 1..Len(s) |-> s[p[i]]] :
            p \in {q \in [1..Len(s) -> 1..Len(s)] :
                     \A i, j \in 1..Len(s) : q[i] = q[j] => i = j}}
    ELSE {Rotate(s, r) : r \in 0..(Len(s) - 1)} \cup {Reverse(s)}

\* vocabList.reduce(... filter(m => m.next_review_date <= now).length ...)
RECURSIVE countDue(_, _)
countDue(list, t) ==
    IF list = <<>> THEN 0
    ELSE Len(dueOfItem(Head(list), t)) + countDue(Tail(list), t)

---------------------------------------------------------------------------
(* The dashboard counts: useMemo(..., [vocabList]) *)

\* a word counted as mastered as soon as one of its meanings is
isMasteredBySome(word) ==
    \E k \in 1..Len(word.meanings) :
        /\ word.meanings[k].srs_level # NaN
        /\ word.meanings[k].srs_level >= MASTERY_THRESHOLD

\* word.meanings.every(meaning => meaning.srs_level >= MASTERY_THRESHOLD):
\* every skips the holes of a sparse array, NaN >= 6 is false
isMastered(word) ==
    \A k \in 1..Len(word.meanings) :
        \/ word.meanings[k].content = "hole"
        \/ /\ word.meanings[k].srs_level # NaN
           /\ word.meanings[k].srs_level >= MASTERY_THRESHOLD

RECURSIVE mastered(_)
\* let mastered = 0; vocabList.forEach(word => { if (isMastered) mastered++ })
mastered(list) ==
    IF list = <<>> THEN 0
    ELSE (IF isMastered(Head(list)) THEN 1 ELSE 0) + mastered(Tail(list))

masteredWords(list) == IF Len(list) = 0 THEN 0 ELSE mastered(list)

inProgressWords(list) == IF Len(list) = 0 THEN 0 ELSE Len(list) - mastered(list)

---------------------------------------------------------------------------
(* validateApiResponse *)

\* A JavaScript array: its elements, and the properties set under keys that
\* are not indices of it
JsArray(elements, props) == [elements |-> elements, props |-> props]

\* A meaning of the response: null ("null"), without multiple_choice
\* ("missing"), with options that are not an array ("notarray") or with an
\* options array ("array"); "undefined" is the correct_answer that is absent
ApiMeaning(kind, options, correct_answer) ==
    [kind |-> kind, options |-> options, correct_answer |-> correct_answer]

\* The parsed response: null ("null"), an object without a meanings array
\* ("nomeanings") or an object with one ("object")
ApiData(kind, meanings) == [kind |-> kind, meanings |-> meanings]

\* options.includes(correct_answer)
includes(arr, x) == \E k \in 1..Len(arr.elements) : arr.elements[k] = x

\* options[options.length - 1] = v: on an empty array the key is -1, which is
\* not an index, and the array keeps its length 0
setLast(arr, v) ==
    IF Len(arr.elements) > 0
    THEN [arr EXCEPT !.elements[Len(arr.elements)] = v]
    ELSE [arr EXCEPT !.props = @ \cup {<<-1, v>>}]

\* the body of data.meanings.forEach(...), for a meaning that is not null
validateMeaning(m) ==
    IF m.kind = "array" /\ ~includes(m.options, m.correct_answer)
    THEN [m EXCEPT !.options = setLast(m.options, m.correct_answer)]
    ELSE m

RECURSIVE forEachMeaning(_)
\* data.meanings.forEach(...): reading meaning.multiple_choice of null throws,
\* after the meanings before it were fixed in place
forEachMeaning(meanings) ==
    IF meanings = <<>> THEN [threw |-> FALSE, meanings |-> <<>>]
    ELSE IF Head(meanings).kind = "null" THEN [threw |-> TRUE, meanings |-> meanings]
    ELSE LET rest == forEachMeaning(Tail(meanings))
         IN  [threw |-> rest.threw,
              meanings |-> <<validateMeaning(Head(meanings))>> \o rest.meanings]

\* validateApiResponse(data): whether it threw, and data after the call
validateApiResponse(data) ==
    IF data.kind # "object" THEN [threw |-> TRUE, data |-> data]
    ELSE LET r == forEachMeaning(data.meanings)
         IN  [threw |-> r.threw, data |-> ApiData("object", r.meanings)]

NoValidation == [result |-> "idle", data |-> ApiData("null", <<>>)]

---------------------------------------------------------------------------
(* React state updates *)

\* A queued update: setVocabList(migratedList) / setVocabList([]) ("set"),
\* handleQuizComplete's updater ("quiz"), fetchVocabData's updater
\* ("prepend"), setTheme(v) ("theme"), setIsLoading(v) ("loading") or
\* setError(v) ("error").
Update(type, list, wordId, meaningIndex, flag, text) ==
    [type |-> type, list |-> list, wordId |-> wordId, meaningIndex |-> meaningIndex,
     flag |-> flag, text |-> text]

SetList(list) == Update("set", list, <<>>, 0, FALSE, "")

\* an outcome applied to the list the handler was rendered with
quizOnRenderedList(wordId, meaningIndex, isCorrect) ==
    Update("set", quizUpdater(vocabList, wordId, meaningIndex, isCorrect, now), <<>>, 0, FALSE, "")

QuizUpdate(wordId, meaningIndex, isCorrect) ==
    Update("quiz", <<>>, wordId, meaningIndex, isCorrect, "")

\* prev => [newVocab, ...prev]
Prepend(newVocab) == Update("prepend", <<newVocab>>, <<>>, 0, FALSE, "")

SetTheme(themeId) == Update("theme", <<>>, <<>>, 0, FALSE, themeId)

SetIsLoading(v) == Update("loading", <<>>, <<>>, 0, v, "")

\* a failure that puts an item in the list
setItemOnError(msg) ==
    Update("prepend", <<VocabData(<<now>>, msg, <<Meaning("n1", 0, now)>>)>>, <<>>, 0, FALSE, "")

SetError(msg) == Update("error", <<>>, <<>>, 0, FALSE, msg)

\* a prepend that puts the new item in the place of the list
applyAndReplace(st, u, t) ==
    CASE u.type = "set" -> [st EXCEPT !.list = u.list]
      [] u.type = "quiz" ->
            [st EXCEPT !.list = quizUpdater(@, u.wordId, u.meaningIndex, u.flag, t)]
      [] u.type = "prepend" -> [st EXCEPT !.list = u.list]
      [] u.type = "theme" -> [st EXCEPT !.theme = u.text]
      [] u.type = "loading" -> [st EXCEPT !.isLoading = u.flag]
      [] OTHER -> [st EXCEPT !.error = u.text]

\* a prepend that schedules every Meaning of the list anew
applyAndReset(st, u, t) ==
    CASE u.type = "set" -> [st EXCEPT !.list = u.list]
      [] u.type = "quiz" ->
            [st EXCEPT !.list = quizUpdater(@, u.wordId, u.meaningIndex, u.flag, t)]
      [] u.type = "prepend" ->
            [st EXCEPT !.list = u.list \o
                [i \in 1..Len(@) |->
                    [@[i] EXCEPT !.meanings =
                        [k \in 1..Len(@) |-> [@[k] EXCEPT !.next_review_date = t]]]]]
      [] u.type = "theme" -> [st EXCEPT !.theme = u.text]
      [] u.type = "loading" -> [st EXCEPT !.isLoading = u.flag]
      [] OTHER -> [st EXCEPT !.error = u.text]

\* one queued update applied to the state st at time t
applyUpdate(st, u, t) ==
    CASE u.type = "set" -> [st EXCEPT !.list = u.list]
      [] u.type = "quiz" ->
            [st EXCEPT !.list = quizUpdater(@, u.wordId, u.meaningIndex, u.flag, t)]
      [] u.type = "prepend" -> [st EXCEPT !.list = u.list \o @]
      [] u.type = "theme" -> [st EXCEPT !.theme = u.text]
      [] u.type = "loading" -> [st EXCEPT !.isLoading = u.flag]
      [] OTHER -> [st EXCEPT !.error = u.text]

RECURSIVE applyAll(_, _, _)
\* a render: the queued updates applied in queue order
applyAll(st, q, t) ==
    IF q = <<>> THEN st ELSE applyAll(applyUpdate(st, Head(q), t), Tail(q), t)

touchesList(q) == \E i \in 1..Len(q) : q[i].type \in {"set", "quiz", "prepend"}

\* GapFillQuiz reads meaning.gap_fill_full_sentence.replace(...): rendering the
\* card of a Meaning that has no content fields throws.
rendersList(list) ==
    \A i \in 1..Len(list) : \A k \in 1..Len(list[i].meanings) :
        list[i].meanings[k].content # "undefined"

\* useEffect(..., [meaning]) of the QuizContainer of each card, after a render
\* of the queue q: setIsComplete(false) where the meaning prop is another
\* object.  setVocabList(list) gives every card new objects, and the updater
\* of handleQuizComplete makes a new object at meaningIndex of the items whose
\* id is wordId.
resetOnMeaning(complete, q) ==
    IF \E n \in 1..Len(q) : q[n].type = "set" THEN {}
    ELSE complete \ {<<q[n].wordId, q[n].meaningIndex>> :
                        n \in {j \in 1..Len(q) : q[j].type = "quiz"}}

\* A render of the queue q and the effects that follow it: the save effect
\* runs when vocabList was replaced, the theme effect when theme changed, the
\* effect on [meaning] of each QuizContainer when its meaning was replaced;
\* completed are the cards whose QuizContainer called setIsComplete(true) in
\* the handler that renders.  A render that throws commits nothing and
\* unmounts the component tree.
CommitWith(q, completed) ==
    LET r == applyAll([list |-> vocabList, theme |-> theme,
                       isLoading |-> isLoading, error |-> error], q, now)
    IN  IF rendersList(r.list)
        THEN /\ vocabList' = r.list
             /\ theme' = r.theme
             /\ isLoading' = r.isLoading
             /\ error' = r.error
             /\ updates' = <<>>
             /\ store' = IF touchesList(q) THEN Serialize(r.list) ELSE store
             /\ storeTheme' = IF r.theme # theme THEN r.theme ELSE storeTheme
             /\ wordsForReviewCount' =
                    IF touchesList(q) THEN countDue(r.list, now) ELSE wordsForReviewCount
             /\ cardsComplete' = resetOnMeaning(cardsComplete \cup completed, q)
             /\ pc' = pc
        ELSE /\ pc' = "crashed"
             /\ updates' = <<>>
             /\ UNCHANGED <<vocabList, cardsComplete, theme, isLoading, error, store, storeTheme,
                            wordsForReviewCount>>

Commit(q) == CommitWith(q, {})

---------------------------------------------------------------------------
(* What a run starts from *)

Start == 1000   \* Date.now() when the page is opened

\* Date.now().toString(): an id is the decimal text of a number, written <<n>>
toString(n) == <<n>>

StoredLevels == {-1, 0, 2, 4, 6, 8, 9}

StoredDates == {Start - 100, Start + 200}

Legacy(c) == RawMeaning("ok", c, FALSE, FALSE, 0, 0)

Scheduled(c, level, date) == RawMeaning("ok", c, TRUE, TRUE, level, date)

Malformed(shape) == RawMeaning(shape, "x", FALSE, FALSE, 0, 0)

\* persisted lists of one item with one meaning
SingleLists ==
    {<<RawItem("ok", toString(1), "cat", <<m>>)>> :
        m \in {Legacy("a"), RawMeaning("ok", "a", TRUE, FALSE, 3, 0)}
              \cup {Scheduled("a", l, d) : l \in StoredLevels, d \in StoredDates}}

\* persisted lists of two items, whose ids may be equal
PairLists ==
    {<<RawItem("ok", toString(1), "cat", <<Legacy("a"), Scheduled("b", 0, Start - 100)>>),
       RawItem("ok", toString(n), "Dog", <<m>>)>> :
        n \in {1, 2},
        m \in {Scheduled("c", 8, Start - 100), Scheduled("c", 4, Start + 200)}}

\* persisted lists with malformed entries
BrokenLists ==
    {<<RawItem("bad", toString(1), "cat", <<>>),
       RawItem("ok", toString(2), "Dog",
               <<Malformed("null"), Malformed("nomc"), Malformed("nofields")>>)>>,
     <<RawItem("ok", toString(2), "Dog", <<Malformed("nomc"), Legacy("a")>>),
       RawItem("bad", toString(1), "cat", <<>>)>>}

StoredValues ==
    {NoStore, Stored("text", FALSE, <<>>), Stored("json", FALSE, <<>>)}
    \cup {Stored("json", TRUE, l) :
            l \in {<<>>} \cup SingleLists \cup PairLists \cup BrokenLists}

StoredThemes == {"none", "blue-green", "bogus"}

\* what the user types into the input, with word.trim() and toLowerCase()
TypedWords == {"Cat", " dog ", " "}

Trim(w) == CASE w = " dog " -> "dog" [] w = " " -> "" [] OTHER -> w

ToLowerCase(w) == CASE w = "Cat" -> "cat" [] w = "Dog" -> "dog" [] OTHER -> w

\* what the content request ends with: a rejection, text that is not JSON,
\* JSON without a meanings array, an empty meanings array, or meanings
Responses == {"reject", "notjson", "nomeanings", "empty", "one", "two"}

responseMeanings(resp) ==
    CASE resp = "one" -> <<"n1">> [] resp = "two" -> <<"n1", "n2">> [] OTHER -> <<>>

NoFetch == [state |-> "idle", word |-> "", started |-> 0]

\* useState(0), useState(0), useState(false) of ReviewSession; the isComplete
\* of its QuizContainer; the handleNext timers not yet fired
NewSession ==
    [currentIndex |-> 0, correctCount |-> 0, isSessionComplete |-> FALSE,
     isComplete |-> FALSE, timers |-> <<>>]

Budget(ticks, outcomes, learns) ==
    [ticks |-> ticks, outcomes |-> outcomes, learns |-> learns]

\* the page just opened: the first render is done, the mount effects are not
\* yet run
Boot(b) ==
    /\ now = Start
    /\ pc = "boot"
    /\ vocabList = <<>>
    /\ updates = <<>>
    /\ theme = "violet-yellow"
    /\ wordsForReviewCount = 0
    /\ isLoading = FALSE
    /\ error = "none"
    /\ fetch = NoFetch
    /\ isModalOpen = FALSE
    /\ showReviewPrompt = FALSE
    /\ isReviewing = FALSE
    /\ reviewItems = <<>>
    /\ session = NewSession
    /\ allDueMeanings = <<>>
    /\ ingested = <<>>
    /\ answered = {}
    /\ budget = b
    /\ validation = NoValidation
    /\ cardsComplete = {}

\* the page after its mount effects and the render of the loaded list `list`
\* (strictEffects has no effect after the mount)
Ready(list, b) ==
    /\ now = Start
    /\ pc = "ready"
    /\ strictEffects = FALSE
    /\ vocabList = list
    /\ store = Serialize(list)
    /\ storeTheme = "violet-yellow"
    /\ updates = <<>>
    /\ theme = "violet-yellow"
    /\ wordsForReviewCount = countDue(list, Start)
    /\ isLoading = FALSE
    /\ error = "none"
    /\ fetch = NoFetch
    /\ isModalOpen = FALSE
    /\ showReviewPrompt = FALSE
    /\ isReviewing = FALSE
    /\ reviewItems = <<>>
    /\ session = NewSession
    /\ allDueMeanings = <<>>
    /\ ingested = <<>>
    /\ answered = {}
    /\ budget = b
    /\ validation = NoValidation
    /\ cardsComplete = {}

---------------------------------------------------------------------------
(* Mount *)

\* the load effect run at time t on st = [store, storeTheme, q]: what it
\* leaves in localStorage and the updates it queues
loadEffect(st, t) ==
    LET themeUpdate == IF st.storeTheme \in themes THEN <<SetTheme(st.storeTheme)>> ELSE <<>>
    IN  CASE st.store.kind = "null" -> [st EXCEPT !.q = @ \o themeUpdate]
          [] st.store.kind = "text" -> [st EXCEPT !.store = NoStore]
          [] ~st.store.isArray -> st
          [] OTHER ->
                [st EXCEPT !.q = @ \o <<SetList(migratedList(st.store.items, t))>>
                                   \o themeUpdate]

\* the save effect and the theme effect, run with the rendered vocabList and theme
saveEffects(st, list, themeId) ==
    [st EXCEPT !.store = Serialize(list), !.storeTheme = themeId]

\* The effects of the first render, in the order of their declaration; a
\* development build under React.StrictMode runs them a second time.
MountEffects ==
    /\ pc = "boot"
    /\ LET once == saveEffects(loadEffect([store |-> store, storeTheme |-> storeTheme,
                                           q |-> updates], now), vocabList, theme)
           twice == saveEffects(loadEffect(once, now), vocabList, theme)
           end == IF strictEffects THEN twice ELSE once
       IN  /\ store' = end.store
           /\ storeTheme' = end.storeTheme
           /\ updates' = end.q
    /\ pc' = "ready"
    /\ UNCHANGED <<now, strictEffects, cardsComplete, validation, vocabList, theme, wordsForReviewCount, isLoading,
                   error, fetch, isModalOpen, showReviewPrompt, isReviewing, reviewItems,
                   session, allDueMeanings, ingested, answered, budget>>

\* the render of the updates queued by effects, timers and promise continuations
Render ==
    /\ pc = "ready"
    /\ updates # <<>>
    /\ Commit(updates)
    /\ UNCHANGED <<now, strictEffects, validation, fetch, isModalOpen, showReviewPrompt, isReviewing,
                   reviewItems, session, allDueMeanings, ingested, answered, budget>>

\* time passes
Tick(d) ==
    /\ pc = "ready"
    /\ budget.ticks > 0
    /\ now' = now + d
    /\ budget' = [budget EXCEPT !.ticks = @ - 1]
    /\ UNCHANGED <<store, storeTheme, strictEffects, cardsComplete, validation, pc, vocabList, updates, theme,
                   wordsForReviewCount, isLoading, error, fetch, isModalOpen,
                   showReviewPrompt, isReviewing, reviewItems, session, allDueMeanings,
                   ingested, answered>>

---------------------------------------------------------------------------
(* Quizzes on the vocabulary cards *)

\* The user answers the quiz of meaning k (zero-indexed) on the card of item i:
\* VocabCard calls handleQuizComplete(vocab.id, meaningIndex, isCorrect).
CardAnswer(i, k, isCorrect) ==
    /\ pc = "ready"
    /\ budget.outcomes > 0
    /\ i \in 1..Len(vocabList)
    /\ k \in 0..(Len(vocabList[i].meanings) - 1)
    /\ <<vocabList[i].id, k>> \notin cardsComplete
    /\ CommitWith(Append(updates, QuizUpdate(vocabList[i].id, k, isCorrect)),
                  {<<vocabList[i].id, k>>})
    /\ budget' = [budget EXCEPT !.outcomes = @ - 1]
    /\ answered' = answered \cup {<<vocabList[i].id, k>>}
    /\ UNCHANGED <<now, strictEffects, validation, fetch, isModalOpen, showReviewPrompt, isReviewing,
                   reviewItems, session, allDueMeanings, ingested>>

\* handleClearList: window.confirm answered with confirmed
ClearList(confirmed) ==
    /\ pc = "ready"
    /\ Len(vocabList) > 0
    /\ IF confirmed
       THEN Commit(Append(updates, SetList(<<>>)))
       ELSE UNCHANGED <<vocabList, cardsComplete, theme, isLoading, error, updates, store, storeTheme,
                        wordsForReviewCount, pc>>
    /\ UNCHANGED <<now, strictEffects, validation, fetch, isModalOpen, showReviewPrompt, isReviewing,
                   reviewItems, session, allDueMeanings, ingested, answered, budget>>

\* ThemeSelector: onThemeChange = setTheme
ChangeTheme(themeId) ==
    /\ pc = "ready"
    /\ Commit(Append(updates, SetTheme(themeId)))
    /\ UNCHANGED <<now, strictEffects, validation, fetch, isModalOpen, showReviewPrompt, isReviewing,
                   reviewItems, session, allDueMeanings, ingested, answered, budget>>

\* "My Words" (enabled when the list is not empty), or "View Full Word List"
\* of the review prompt
OpenModal ==
    /\ pc = "ready"
    /\ Len(vocabList) > 0 \/ showReviewPrompt
    /\ isModalOpen' = TRUE
    /\ UNCHANGED <<now, store, storeTheme, strictEffects, cardsComplete, validation, pc, vocabList, updates, theme,
                   wordsForReviewCount, isLoading, error, fetch, showReviewPrompt,
                   isReviewing, reviewItems, session, allDueMeanings, ingested, answered, budget>>

CloseModal ==
    /\ pc = "ready"
    /\ isModalOpen
    /\ isModalOpen' = FALSE
    /\ UNCHANGED <<now, store, storeTheme, strictEffects, cardsComplete, validation, pc, vocabList, updates, theme,
                   wordsForReviewCount, isLoading, error, fetch, showReviewPrompt,
                   isReviewing, reviewItems, session, allDueMeanings, ingested, answered, budget>>

---------------------------------------------------------------------------
(* Learning a word *)

\* a search that compares the words as they are written
existingEntryExact(list, wordToLearn) ==
    \E i \in 1..Len(list) : list[i].word = wordToLearn

\* vocabList.find(item => item.word.toLowerCase() === wordToLearn)
existingEntry(list, wordToLearn) ==
    \E i \in 1..Len(list) : ToLowerCase(list[i].word) = wordToLearn

\* handleLearnWord with `typed` in the input, up to the await
LearnWord(typed) ==
    /\ pc = "ready"
    /\ ~isLoading
    /\ LET wordToLearn == ToLowerCase(Trim(typed)) IN
       IF wordToLearn = "" \/ existingEntry(vocabList, wordToLearn)
       THEN UNCHANGED <<vocabList, cardsComplete, theme, isLoading, error, updates, store, storeTheme,
                        wordsForReviewCount, pc, fetch, budget>>
       ELSE /\ budget.learns > 0
            /\ Commit(updates \o <<SetIsLoading(TRUE), SetError("none")>>)
            /\ fetch' = [state |-> "pending", word |-> Trim(typed), started |-> now]
            /\ budget' = [budget EXCEPT !.learns = @ - 1]
    /\ UNCHANGED <<now, strictEffects, validation, isModalOpen, showReviewPrompt, isReviewing,
                   reviewItems, session, allDueMeanings, ingested, answered>>

\* the message handleApiError shows for what fetchVocabData threw
errorFor(resp) ==
    CASE resp = "reject" -> "unavailable"
      [] resp = "notjson" -> "unexpected-response"
      [] resp = "nomeanings" -> "missing-meanings"
      [] resp = "empty" -> "no-definition"
      [] OTHER -> "timeout"

\* a new item whose Meanings start one level up
newVocabAtLevelOne(wordToLearn, contents, t) ==
    VocabData(toString(t), wordToLearn,
              [k \in 1..Len(contents) |-> Meaning(contents[k], 1, t)])

\* newVocab: id Date.now().toString(), each meaning with srs_level 0 and
\* next_review_date Date.now()
newVocab(wordToLearn, contents, t) ==
    VocabData(toString(t), wordToLearn,
              [k \in 1..Len(contents) |-> Meaning(contents[k], 0, t)])

\* The content request settles before the 30 s timer: fetchVocabData runs from
\* the await to its end, then handleLearnWord's finally.  A round trip to the
\* content service takes time, so the response comes after the request.
FetchSettles(resp) ==
    /\ pc = "ready"
    /\ fetch.state = "pending"
    /\ now > fetch.started
    /\ now < fetch.started + TimeoutMs
    /\ IF resp \in {"one", "two"}
       THEN LET item == newVocab(fetch.word, responseMeanings(resp), now) IN
            /\ updates' = updates \o <<Prepend(item), SetIsLoading(FALSE)>>
            /\ ingested' = Append(ingested, [item |-> item, at |-> now])
       ELSE /\ updates' = updates \o <<SetError(errorFor(resp)), SetIsLoading(FALSE)>>
            /\ ingested' = ingested
    /\ fetch' = [fetch EXCEPT !.state = "timer-left"]
    /\ UNCHANGED <<now, store, storeTheme, strictEffects, cardsComplete, validation, pc, vocabList, theme,
                   wordsForReviewCount, isLoading, error, isModalOpen, showReviewPrompt,
                   isReviewing, reviewItems, session, allDueMeanings, answered, budget>>

\* Time passes while the 30 s timer of a pending request runs: the timer is
\* armed at the request and nothing disarms it.
TimerRuns(d) ==
    /\ pc = "ready"
    /\ fetch.state = "pending"
    /\ now < fetch.started + TimeoutMs
    /\ now' = now + d
    /\ UNCHANGED <<store, storeTheme, strictEffects, cardsComplete, validation, pc, vocabList, updates, theme,
                   wordsForReviewCount, isLoading, error, fetch, isModalOpen,
                   showReviewPrompt, isReviewing, reviewItems, session, allDueMeanings,
                   ingested, answered, budget>>

\* a timeout whose rejection skips the finally of handleLearnWord
timesOutLoading ==
    /\ pc = "ready"
    /\ fetch.state = "pending"
    /\ now >= fetch.started + TimeoutMs
    /\ updates' = updates \o <<SetError(errorFor("timeout"))>>
    /\ fetch' = [fetch EXCEPT !.state = "response-left"]
    /\ UNCHANGED <<now, store, storeTheme, strictEffects, cardsComplete, validation, pc, vocabList, theme,
                   wordsForReviewCount, isLoading, error, isModalOpen, showReviewPrompt,
                   isReviewing, reviewItems, session, allDueMeanings, ingested, answered, budget>>

\* The 30 s timer fires before the content request settles.
FetchTimesOut ==
    /\ pc = "ready"
    /\ fetch.state = "pending"
    /\ now >= fetch.started + TimeoutMs
    /\ updates' = updates \o <<SetError(errorFor("timeout")), SetIsLoading(FALSE)>>
    /\ fetch' = [fetch EXCEPT !.state = "response-left"]
    /\ UNCHANGED <<now, store, storeTheme, strictEffects, cardsComplete, validation, pc, vocabList, theme,
                   wordsForReviewCount, isLoading, error, isModalOpen, showReviewPrompt,
                   isReviewing, reviewItems, session, allDueMeanings, ingested, answered, budget>>

\* a late response that is handled as if it had won the race
lateResponseAdds ==
    /\ pc = "ready"
    /\ fetch.state \in {"timer-left", "response-left"}
    /\ fetch.state = "timer-left" => now >= fetch.started + TimeoutMs
    /\ fetch' = NoFetch
    /\ updates' = IF fetch.state = "response-left"
                  THEN Append(updates, Prepend(newVocab(fetch.word, <<"n1">>, now)))
                  ELSE updates
    /\ UNCHANGED <<now, store, storeTheme, strictEffects, cardsComplete, validation, pc, vocabList,
                   theme, wordsForReviewCount, isLoading, error, isModalOpen, showReviewPrompt,
                   isReviewing, reviewItems, session, allDueMeanings, ingested, answered, budget>>

\* The loser of Promise.race settles: nothing listens to it.
LateSettle ==
    /\ pc = "ready"
    /\ fetch.state \in {"timer-left", "response-left"}
    /\ fetch.state = "timer-left" => now >= fetch.started + TimeoutMs
    /\ fetch' = NoFetch
    /\ UNCHANGED <<now, store, storeTheme, strictEffects, cardsComplete, validation, pc, vocabList, updates, theme,
                   wordsForReviewCount, isLoading, error, isModalOpen, showReviewPrompt,
                   isReviewing, reviewItems, session, allDueMeanings, ingested, answered, budget>>

---------------------------------------------------------------------------
(* Review sessions *)

\* The Review button, enabled when the list is not empty: it opens the prompt
\* when the memoized due count is positive and shows an alert otherwise.
ReviewButton ==
    /\ pc = "ready"
    /\ Len(vocabList) > 0
    /\ showReviewPrompt' = (IF wordsForReviewCount > 0 THEN TRUE ELSE showReviewPrompt)
    /\ UNCHANGED <<now, store, storeTheme, strictEffects, cardsComplete, validation, pc, vocabList, updates, theme,
                   wordsForReviewCount, isLoading, error, fetch, isModalOpen, isReviewing,
                   reviewItems, session, allDueMeanings, ingested, answered, budget>>

\* ReviewPromptModal.onClose
ClosePrompt ==
    /\ pc = "ready"
    /\ showReviewPrompt
    /\ showReviewPrompt' = FALSE
    /\ UNCHANGED <<now, store, storeTheme, strictEffects, cardsComplete, validation, pc, vocabList, updates, theme,
                   wordsForReviewCount, isLoading, error, fetch, isModalOpen, isReviewing,
                   reviewItems, session, allDueMeanings, ingested, answered, budget>>

\* items[currentIndex] of a ReviewSession: <<item>>, or <<>> when undefined
currentItem(items, index) ==
    IF index < Len(items) THEN <<items[index + 1]>> ELSE <<>>

\* QuizContainer's isComplete after ReviewSession renders with another
\* currentItem: the effect on [meaning] clears it when the meaning is another
\* object, and a QuizContainer that is mounted anew starts cleared.
quizAfter(before, after, isComplete) ==
    IF before # <<>> /\ after # <<>> /\ before[1].meaning = after[1].meaning
    THEN isComplete ELSE FALSE

\* ReviewPromptModal.onStartReview: setShowReviewPrompt(false) and
\* startReviewSession().  A ReviewSession that is already mounted keeps its state.
StartReview ==
    /\ pc = "ready"
    /\ showReviewPrompt
    /\ showReviewPrompt' = FALSE
    /\ \E due \in {collectDue(vocabList, now)} :
        \E items \in {itemsForReview(sortByLevel(due))} :
            /\ allDueMeanings' = due
            /\ reviewItems' \in shuffles(items)
    /\ isReviewing' = TRUE
    /\ session' =
          IF isReviewing
          THEN [session EXCEPT !.isComplete =
                   quizAfter(currentItem(reviewItems, session.currentIndex),
                             currentItem(reviewItems', session.currentIndex), @)]
          ELSE NewSession
    /\ UNCHANGED <<now, store, storeTheme, strictEffects, cardsComplete, validation, pc, vocabList, updates, theme,
                   wordsForReviewCount, isLoading, error, fetch, isModalOpen, ingested, answered,
                   budget>>

\* The user answers the quiz of the session: QuizContainer.handleQuizComplete
\* and ReviewSession.handleNext, which starts the 1500 ms timer.
SessionAnswer(isCorrect) ==
    /\ pc = "ready"
    /\ isReviewing
    /\ ~session.isSessionComplete
    /\ ~session.isComplete
    /\ currentItem(reviewItems, session.currentIndex) # <<>>
    /\ budget.outcomes > 0
    /\ LET item == currentItem(reviewItems, session.currentIndex)[1] IN
       /\ Commit(Append(updates, QuizUpdate(item.wordId, item.meaningIndex, isCorrect)))
       /\ answered' = answered \cup {<<item.wordId, item.meaningIndex>>}
    /\ session' = [session EXCEPT
          !.isComplete = TRUE,
          !.correctCount = IF isCorrect THEN @ + 1 ELSE @,
          !.timers = Append(@, [currentIndex |-> session.currentIndex,
                                length |-> Len(reviewItems)])]
    /\ budget' = [budget EXCEPT !.outcomes = @ - 1]
    /\ UNCHANGED <<now, strictEffects, validation, fetch, isModalOpen, showReviewPrompt, isReviewing,
                   reviewItems, allDueMeanings, ingested>>

\* The timer of handleNext fires, with the currentIndex and items it captured.
SessionTimer ==
    /\ pc = "ready"
    /\ isReviewing
    /\ session.timers # <<>>
    /\ LET timer == Head(session.timers) IN
       session' =
          IF timer.currentIndex < timer.length - 1
          THEN [session EXCEPT
                   !.currentIndex = @ + 1,
                   !.isComplete =
                       IF session.isSessionComplete THEN @
                       ELSE quizAfter(currentItem(reviewItems, session.currentIndex),
                                      currentItem(reviewItems, session.currentIndex + 1), @),
                   !.timers = Tail(@)]
          ELSE [session EXCEPT !.isSessionComplete = TRUE, !.timers = Tail(@)]
    /\ UNCHANGED <<now, store, storeTheme, strictEffects, cardsComplete, validation, pc, vocabList, updates, theme,
                   wordsForReviewCount, isLoading, error, fetch, isModalOpen,
                   showReviewPrompt, isReviewing, reviewItems, allDueMeanings, ingested, answered,
                   budget>>

\* ReviewSession.onClose: setIsReviewing(false) unmounts the session, and the
\* timers it left set state on nothing.
CloseSession ==
    /\ pc = "ready"
    /\ isReviewing
    /\ isReviewing' = FALSE
    /\ session' = NewSession
    /\ UNCHANGED <<now, store, storeTheme, strictEffects, cardsComplete, validation, pc, vocabList, updates, theme,
                   wordsForReviewCount, isLoading, error, fetch, isModalOpen,
                   showReviewPrompt, reviewItems, allDueMeanings, ingested, answered, budget>>

---------------------------------------------------------------------------
(* The application *)

\* Every operation of the application, from a page opened on one of two
\* persisted values, with AppSteps clock ticks, outcomes and fetches.
AppStoredValues ==
    {NoStore,
     Stored("json", TRUE,
            <<RawItem("ok", toString(1), "cat",
                      <<Legacy("a"), Scheduled("b", 0, Start - 100)>>),
              RawItem("ok", toString(1), "Dog", <<Scheduled("c", 8, Start - 100)>>)>>)}

Init ==
    /\ Boot(Budget(AppSteps, AppSteps, AppSteps))
    /\ store \in AppStoredValues
    /\ storeTheme = "none"
    /\ strictEffects \in BOOLEAN

Next ==
    \/ MountEffects
    \/ Render
    \/ \E d \in TickSteps : Tick(d)
    \/ \E i \in 1..Len(vocabList) : \E k \in 0..1 : \E c \in BOOLEAN : CardAnswer(i, k, c)
    \/ \E c \in BOOLEAN : ClearList(c)
    \/ \E t \in themes : ChangeTheme(t)
    \/ OpenModal
    \/ CloseModal
    \/ \E w \in TypedWords : LearnWord(w)
    \/ \E r \in Responses : FetchSettles(r)
    \/ FetchTimesOut
    \/ LateSettle
    \/ ReviewButton
    \/ ClosePrompt
    \/ StartReview
    \/ \E c \in BOOLEAN : SessionAnswer(c)
    \/ SessionTimer
    \/ CloseSession

Spec == Init /\ [][Next]_vars

---------------------------------------------------------------------------
(* Loading: the page opened on each persisted value, then quizzes on its cards *)

InitLoad ==
    /\ Boot(Budget(MaxTicks, MaxOutcomes, 0))
    /\ store \in StoredValues
    /\ storeTheme \in StoredThemes
    /\ strictEffects \in BOOLEAN

NextLoad ==
    \/ MountEffects
    \/ Render
    \/ \E d \in TickSteps : Tick(d)
    \/ \E i \in 1..Len(vocabList) : \E k \in 0..1 : \E c \in BOOLEAN : CardAnswer(i, k, c)

SpecLoad == InitLoad /\ [][NextLoad]_vars

---------------------------------------------------------------------------
(* Scheduling: outcomes recorded on the cards and in review sessions, for a
   loaded list whose first Meaning has any level a persisted list can give it *)

ScheduleLevels == -1..(maxLevel + 1)

ScheduleLists ==
    {<<VocabData(toString(1), "cat", <<Meaning("a", l, d)>>)>> :
        l \in ScheduleLevels, d \in StoredDates}
    \cup {<<VocabData(toString(1), "cat",
                      <<Meaning("a", l, Start + 200), Meaning("b", r, Start - 100)>>)>> :
            l \in ScheduleLevels, r \in {0, maxLevel}}

InitSchedule == \E list \in ScheduleLists : Ready(list, Budget(MaxTicks, MaxOutcomes, 0))

NextSchedule ==
    \/ \E d \in TickSteps : Tick(d)
    \/ \E i \in 1..Len(vocabList) : \E k \in 0..1 : \E c \in BOOLEAN : CardAnswer(i, k, c)
    \/ ReviewButton
    \/ ClosePrompt
    \/ StartReview
    \/ \E c \in BOOLEAN : SessionAnswer(c)
    \/ SessionTimer
    \/ CloseSession

SpecSchedule == InitSchedule /\ [][NextSchedule]_vars

---------------------------------------------------------------------------
(* Learning words: fetches, their outcomes and the quizzes on the cards *)

LearnLists ==
    {<<>>, <<VocabData(toString(1), "cat", <<Meaning("a", 2, Start + 200)>>)>>}

InitLearn == \E list \in LearnLists : Ready(list, Budget(MaxTicks + 1, MaxOutcomes, MaxLearn))

NextLearn ==
    \/ Render
    \/ \E d \in TickSteps : Tick(d)
    \/ \E i \in 1..Len(vocabList) : \E k \in 0..1 : \E c \in BOOLEAN : CardAnswer(i, k, c)
    \/ \E c \in BOOLEAN : ClearList(c)
    \/ \E w \in TypedWords : LearnWord(w)
    \/ \E r \in Responses : FetchSettles(r)
    \/ FetchTimesOut
    \/ LateSettle

SpecLearn == InitLearn /\ [][NextLearn]_vars

---------------------------------------------------------------------------
(* Building a session: startReviewSession on lists of up to
   2 * MaxSessionItems Meanings, whose items have ids of their own or share
   them two by two *)

\* the Meanings of an item of such a list: <<level, due>> of each
SessionTemplates ==
    {<<<<3, TRUE>>, <<0, TRUE>>>>,
     <<<<5, TRUE>>, <<0, FALSE>>>>,
     <<<<2, TRUE>>, <<8, TRUE>>>>}

sessionItem(n, template, sameIds) ==
    VocabData(toString(IF sameIds THEN (n + 1) \div 2 ELSE n), "word",
        [k \in 1..Len(template) |->
            Meaning("c", template[k][1],
                    IF template[k][2] THEN Start + 1 - n ELSE Start + n)])

SessionLists ==
    UNION {{[n \in 1..len |-> sessionItem(n, choice[n], sameIds)] :
              choice \in [1..len -> SessionTemplates], sameIds \in BOOLEAN} :
           len \in 1..MaxSessionItems}

InitSession ==
    \E list \in SessionLists :
        /\ Ready(list, Budget(0, 0, 0))

NextSession ==
    \/ ReviewButton
    \/ ClosePrompt
    \/ StartReview

SpecSession == InitSession /\ [][NextSession]_vars

---------------------------------------------------------------------------
(* The dashboard: lists of up to three items whose Meanings have levels on
   both sides of the mastery threshold, and outcomes that move them across *)

DashboardLevels == {0, MASTERY_THRESHOLD - 1, MASTERY_THRESHOLD, maxLevel}

DashboardItems ==
    {<<Meaning("a", l, Start + 200)>> : l \in DashboardLevels}
    \cup {<<Meaning("a", l, Start + 200), Meaning("b", r, Start - 100)>> :
            l \in DashboardLevels, r \in DashboardLevels}

DashboardWords == <<"cat", "dog", "owl">>

DashboardLists ==
    {<<>>}
    \cup {[n \in 1..len |-> VocabData(toString(n), DashboardWords[n], choice[n])] :
            len \in 1..2, choice \in [1..2 -> DashboardItems]}
    \cup {[n \in 1..3 |-> VocabData(toString(n), DashboardWords[n],
                                     <<Meaning("a", level[n], Start + 200)>>)] :
            level \in [1..3 -> DashboardLevels]}

InitDashboard == \E list \in DashboardLists : Ready(list, Budget(0, MaxOutcomes, 0))

NextDashboard ==
    \/ \E i \in 1..Len(vocabList) : \E k \in 0..1 : \E c \in BOOLEAN : CardAnswer(i, k, c)
    \/ \E c \in BOOLEAN : ClearList(c)

SpecDashboard == InitDashboard /\ [][NextDashboard]_vars

---------------------------------------------------------------------------
(* Repeated requests: the same words typed again in another letter case,
   after fetches that succeeded, failed or timed out *)

MaxRequests == 2

RepeatedWords == {"Cat", "cat", "Dog", " dog "}

InitRepeat == \E list \in LearnLists : Ready(list, Budget(MaxTicks + 1, 0, MaxRequests))

NextRepeat ==
    \/ Render
    \/ \E d \in TickSteps : Tick(d)
    \/ \E w \in RepeatedWords : LearnWord(w)
    \/ \E r \in Responses : FetchSettles(r)
    \/ FetchTimesOut
    \/ LateSettle

SpecRepeat == InitRepeat /\ [][NextRepeat]_vars

---------------------------------------------------------------------------
(* validateApiResponse called on parsed responses whose option arrays have up
   to MaxOptions options *)

MaxOptions == 3

Answers == {"a", "b", "c"}

OptionArrays ==
    {JsArray(e, {}) : e \in UNION {[1..n -> Answers] : n \in 0..MaxOptions}}

ApiMeanings ==
    {ApiMeaning("array", o, c) : o \in OptionArrays, c \in Answers \cup {"undefined"}}
    \cup {ApiMeaning(kind, JsArray(<<>>, {}), "a") : kind \in {"null", "missing", "notarray"}}

PairedMeanings ==
    {ApiMeaning("null", JsArray(<<>>, {}), "a"),
     ApiMeaning("array", JsArray(<<>>, {}), "a"),
     ApiMeaning("array", JsArray(<<"a", "b">>, {}), "c"),
     ApiMeaning("array", JsArray(<<"a">>, {}), "a")}

ApiResponses ==
    {ApiData("null", <<>>), ApiData("nomeanings", <<>>), ApiData("object", <<>>)}
    \cup {ApiData("object", <<m>>) : m \in ApiMeanings}
    \cup {ApiData("object", <<m, n>>) : m \in PairedMeanings, n \in PairedMeanings}

\* const vocabData = validateApiResponse(parsedData)
Validate ==
    /\ validation.result = "called"
    /\ LET r == validateApiResponse(validation.data)
       IN  validation' = [result |-> IF r.threw THEN "threw" ELSE "returned",
                          data |-> r.data]
    /\ UNCHANGED <<now, store, storeTheme, strictEffects, cardsComplete, pc, vocabList, updates, theme,
                   wordsForReviewCount, isLoading, error, fetch, isModalOpen,
                   showReviewPrompt, isReviewing, reviewItems, session, allDueMeanings,
                   ingested, answered, budget>>

InitValidate ==
    /\ now = Start
    /\ pc = "ready"
    /\ strictEffects = FALSE
    /\ vocabList = <<>>
    /\ store = Serialize(<<>>)
    /\ storeTheme = "violet-yellow"
    /\ updates = <<>>
    /\ theme = "violet-yellow"
    /\ wordsForReviewCount = 0
    /\ isLoading = TRUE
    /\ error = "none"
    /\ fetch = [state |-> "pending", word |-> "cat", started |-> Start]
    /\ isModalOpen = FALSE
    /\ showReviewPrompt = FALSE
    /\ isReviewing = FALSE
    /\ reviewItems = <<>>
    /\ session = NewSession
    /\ allDueMeanings = <<>>
    /\ ingested = <<>>
    /\ answered = {}
    /\ budget = Budget(0, 0, 0)
    /\ cardsComplete = {}
    /\ \E data \in ApiResponses : validation = [result |-> "called", data |-> data]

NextValidate == Validate

SpecValidate == InitValidate /\ [][NextValidate]_vars

---------------------------------------------------------------------------
(* Requests to their end: the event loop runs the timers that are due and
   the renders that are queued, and time passes while a timer runs; the
   content service may never answer *)

\* how far the clock moves while a timer runs: half the timeout, or all of it
TimerSteps == {TimeoutMs \div 2, TimeoutMs}

InitLive == \E list \in LearnLists : Ready(list, Budget(1, 0, MaxRequests))

NextLive ==
    \/ Render
    \/ \E d \in TickSteps : Tick(d)
    \/ \E d \in TimerSteps : TimerRuns(d)
    \/ \E w \in TypedWords : LearnWord(w)
    \/ \E r \in Responses : FetchSettles(r)
    \/ FetchTimesOut
    \/ LateSettle

SpecLive ==
    /\ InitLive
    /\ [][NextLive]_vars
    /\ WF_vars(Render)
    /\ WF_vars(\E d \in TimerSteps : TimerRuns(d))
    /\ WF_vars(FetchTimesOut)

---------------------------------------------------------------------------
(* Properties *)

\* the Meanings of a list: <<i, k>> is the k-th Meaning of the i-th item
Positions(list) ==
    UNION {{<<i, k>> : k \in 1..Len(list[i].meanings)} : i \in 1..Len(list)}

InRange(level) == level \in 0..8

\* hours until the next review after a correct outcome that gives level l
HoursOfLevel(l) ==
    CASE l = 1 -> 4 [] l = 2 -> 8 [] l = 3 -> 24 [] l = 4 -> 72
      [] l = 5 -> 168 [] l = 6 -> 336 [] l = 7 -> 720 [] l = 8 -> 2160

\* handleQuizComplete(wordId, meaningIndex, isCorrect) is called in this step
Records(wordId, meaningIndex, isCorrect) ==
    \/ \E i \in 1..Len(vocabList) :
          /\ vocabList[i].id = wordId
          /\ CardAnswer(i, meaningIndex, isCorrect)
    \/ /\ SessionAnswer(isCorrect)
       /\ currentItem(reviewItems, session.currentIndex) # <<>>
       /\ currentItem(reviewItems, session.currentIndex)[1].wordId = wordId
       /\ currentItem(reviewItems, session.currentIndex)[1].meaningIndex = meaningIndex

\* the outcome isCorrect is recorded in this step, on a card or in a session,
\* for the Meaning at position p, whose level is in levels
RecordedAt(p, isCorrect, levels) ==
    /\ vocabList[p[1]].meanings[p[2]].srs_level \in levels
    /\ Records(vocabList[p[1]].id, p[2] - 1, isCorrect)
    /\ pc' = "ready"

OldLevel(p) == vocabList[p[1]].meanings[p[2]].srs_level
NewLevel(p) == vocabList'[p[1]].meanings[p[2]].srs_level
NewDate(p) == vocabList'[p[1]].meanings[p[2]].next_review_date

\* C1: every Meaning of the list has a level from 0 to maxLevel = 8, in every
\* state: after the load from localStorage, after a fetched word is added and
\* after any outcomes.
C1_LevelsInRange ==
    \A p \in Positions(vocabList) : InRange(vocabList[p[1]].meanings[p[2]].srs_level)

\* C2: a correct outcome recorded at time now on a Meaning of level L in 0..8
\* gives it the level min(L + 1, 8) and the date now + the hours of that level
\* in the table 4, 8, 24, 72, 168, 336, 720, 2160.
C2_CorrectOutcome ==
    [][\A p \in Positions(vocabList) :
          RecordedAt(p, TRUE, 0..8) =>
              /\ NewLevel(p) = (IF OldLevel(p) + 1 < 8 THEN OldLevel(p) + 1 ELSE 8)
              /\ NewDate(p) = now + HoursOfLevel(NewLevel(p)) * 3600]_vars

\* a correct outcome took a Meaning from level 2 to level 3, due in 24 hours
C2_Witness ==
    /\ pc = "ready"
    /\ <<toString(1), 0>> \in answered
    /\ budget.outcomes = MaxOutcomes - 1
    /\ Len(vocabList) = 1
    /\ vocabList[1].meanings[1].srs_level = 3
    /\ vocabList[1].meanings[1].next_review_date = now + 24 * 3600

\* C3: an incorrect outcome recorded at time now on a Meaning of level L in
\* 0..8 gives it the level max(L - 1, 0) and the date now + 5 minutes, whatever
\* the level before and after.
C3_IncorrectOutcome ==
    [][\A p \in Positions(vocabList) :
          RecordedAt(p, FALSE, 0..8) =>
              /\ NewLevel(p) = (IF OldLevel(p) - 1 > 0 THEN OldLevel(p) - 1 ELSE 0)
              /\ NewDate(p) = now + 300]_vars

\* an incorrect outcome took a Meaning from level 8 to level 7, due in 5 minutes
C3_Witness ==
    /\ pc = "ready"
    /\ <<toString(1), 0>> \in answered
    /\ budget.outcomes = MaxOutcomes - 1
    /\ Len(vocabList) = 1
    /\ vocabList[1].meanings[1].srs_level = 7
    /\ vocabList[1].meanings[1].next_review_date = now + 300

\* C4: a correct outcome recorded on a Meaning of level 8 leaves its level at
\* 8 and sets its date to now + 2160 hours.
C4_Saturation ==
    [][\A p \in Positions(vocabList) :
          RecordedAt(p, TRUE, {8}) =>
              /\ NewLevel(p) = 8
              /\ NewDate(p) = now + 2160 * 3600]_vars

\* the one outcome of the run, a correct one, was recorded on a Meaning of level 8
C4_Witness ==
    /\ pc = "ready"
    /\ answered = {<<toString(1), 1>>}
    /\ budget.outcomes = MaxOutcomes - 1
    /\ Len(vocabList) = 1
    /\ Len(vocabList[1].meanings) = 2
    /\ vocabList[1].meanings[2].srs_level = 8
    /\ vocabList[1].meanings[2].next_review_date = now + 2160 * 3600

\* C5: an incorrect outcome recorded on a Meaning of level 0 leaves its level
\* at 0.
C5_Floor ==
    [][\A p \in Positions(vocabList) : RecordedAt(p, FALSE, {0}) => NewLevel(p) = 0]_vars

\* the one outcome of the run, an incorrect one, was recorded on a Meaning of level 0
C5_Witness ==
    /\ pc = "ready"
    /\ answered = {<<toString(1), 1>>}
    /\ budget.outcomes = MaxOutcomes - 1
    /\ Len(vocabList) = 1
    /\ Len(vocabList[1].meanings) = 2
    /\ vocabList[1].meanings[2].srs_level = 0
    /\ vocabList[1].meanings[2].next_review_date = now + 300

\* how many times x occurs in the sequence s
Count(x, s) == Cardinality({j \in 1..Len(s) : s[j] = x})

Range(s) == {s[j] : j \in 1..Len(s)}

\* the Meanings of the list whose next_review_date is not after now
DuePositions ==
    {p \in Positions(vocabList) : vocabList[p[1]].meanings[p[2]].next_review_date <= now}

\* the ReviewItem that addresses the Meaning at position p and carries it
ItemOf(p) ==
    [word |-> vocabList[p[1]].word, meaning |-> vocabList[p[1]].meanings[p[2]],
     meaningIndex |-> p[2] - 1, wordId |-> vocabList[p[1]].id]

\* C6: the due collection of startReviewSession holds one ReviewItem for each
\* Meaning of the list with next_review_date <= now and nothing else, and each
\* ReviewItem has the id of the item and the index in it of the Meaning it
\* carries.
C6_DueCollection ==
    [][StartReview =>
          /\ Len(allDueMeanings') = Cardinality(DuePositions)
          /\ \A p \in DuePositions :
                Count(ItemOf(p), allDueMeanings')
                    = Cardinality({q \in DuePositions : ItemOf(q) = ItemOf(p)})
          /\ \A j \in 1..Len(allDueMeanings') :
                \E p \in DuePositions : allDueMeanings'[j] = ItemOf(p)]_vars

\* a session was started on a list with a Meaning due exactly now, others due
\* before and one not yet due
C6_Witness ==
    /\ isReviewing
    /\ Len(allDueMeanings) >= 3
    /\ \E j \in 1..Len(allDueMeanings) : allDueMeanings[j].meaning.next_review_date = now
    /\ \E j \in 1..Len(allDueMeanings) : allDueMeanings[j].meaning.next_review_date < now
    /\ \E p \in Positions(vocabList) : vocabList[p[1]].meanings[p[2]].next_review_date > now

\* C7: the session startReviewSession builds has at most 10 items, each of
\* them an item of the due collection, none taken twice.
C7_SessionWithinCap ==
    [][StartReview =>
          /\ Len(reviewItems') <= 10
          /\ \A x \in Range(reviewItems') :
                Count(x, reviewItems') <= Count(x, allDueMeanings')]_vars

\* a session of 10 items was built from 12 due Meanings
C7_Witness ==
    /\ isReviewing
    /\ Len(allDueMeanings) = 12
    /\ Len(reviewItems) = 10

\* the due items that are not in the session
LeftOut(due, items) == {x \in Range(due) : Count(x, items) < Count(x, due)}

\* C8: every due item left out of the session has a level at least that of
\* every item in it, the session is as long as the cap and the due collection
\* allow, and the shuffle keeps the items selected before it.
C8_PriorityDecidesInclusion ==
    [][StartReview =>
          /\ \A x \in LeftOut(allDueMeanings', reviewItems') :
                \A y \in Range(reviewItems') : x.meaning.srs_level >= y.meaning.srs_level
          /\ Len(reviewItems') =
                (IF Len(allDueMeanings') < 10 THEN Len(allDueMeanings') ELSE 10)
          /\ \A selected \in {itemsForReview(sortByLevel(allDueMeanings'))} :
                \A x \in Range(allDueMeanings') :
                    Count(x, reviewItems') = Count(x, selected)]_vars

\* a session of 10 was built from more due items: items of level 8 are left
\* out, items of levels 0 and 3 are in, in an order that is not ascending, and
\* an item collected before the ones left out is itself of level 3 or more
C8_Witness ==
    /\ isReviewing
    /\ Len(allDueMeanings) > 10
    /\ Len(reviewItems) = 10
    /\ \E x \in LeftOut(allDueMeanings, reviewItems) : x.meaning.srs_level = 8
    /\ \E y \in Range(reviewItems) : y.meaning.srs_level = 0
    /\ \E y \in Range(reviewItems) : y.meaning.srs_level = 3
    /\ \E j \in 1..9 : reviewItems[j].meaning.srs_level > reviewItems[j + 1].meaning.srs_level
    /\ allDueMeanings[1].meaning.srs_level >= 3

\* C9: a Meaning made from fetched content has srs_level 0 and
\* next_review_date the time of its making, and as long as no outcome is
\* recorded for it, it keeps them in the list and is in the due collection of
\* the current time.
C9_NewMeaningsStartDue ==
    \A n \in 1..Len(ingested) :
        /\ \A k \in 1..Len(ingested[n].item.meanings) :
              /\ ingested[n].item.meanings[k].srs_level = 0
              /\ ingested[n].item.meanings[k].next_review_date = ingested[n].at
        /\ \A p \in Positions(vocabList) :
              (/\ vocabList[p[1]].id = ingested[n].item.id
               /\ <<ingested[n].item.id, p[2] - 1>> \notin answered)
              => /\ vocabList[p[1]].meanings[p[2]].srs_level = 0
                 /\ vocabList[p[1]].meanings[p[2]].next_review_date = ingested[n].at
                 /\ ItemOf(p) \in Range(collectDue(vocabList, now))

\* a fetched word of two Meanings is in the list at a later time, one of its
\* Meanings with an outcome recorded and the other still without
C9_Witness ==
    /\ Len(ingested) = 1
    /\ now > ingested[1].at + 300
    /\ \E i \in 1..Len(vocabList) :
          /\ vocabList[i].id = ingested[1].item.id
          /\ Len(vocabList[i].meanings) = 2
          /\ <<vocabList[i].id, 0>> \in answered
          /\ vocabList[i].meanings[1].srs_level = 1
          /\ <<vocabList[i].id, 1>> \notin answered
          /\ vocabList[i].meanings[2].srs_level = 0

\* the srs_level and next_review_date of each Meaning of an item
Schedule(item) ==
    [k \in 1..Len(item.meanings) |->
        <<item.meanings[k].srs_level, item.meanings[k].next_review_date>>]

\* C10: a step in which handleQuizComplete is not called (a session started,
\* advanced or closed, a word learned, a modal opened or closed, the theme
\* changed, the list loaded or cleared, time passing) leaves every Meaning
\* that stays in the list with its srs_level and next_review_date: the list
\* is emptied, or the items it had keep their order and schedules behind the
\* items that are new.
C10_OnlyOutcomesReschedule ==
    [][budget'.outcomes = budget.outcomes =>
          \/ vocabList' = <<>>
          \/ \E d \in 0..Len(vocabList') :
                /\ Len(vocabList') = Len(vocabList) + d
                /\ \A i \in 1..Len(vocabList) :
                      /\ vocabList'[i + d].id = vocabList[i].id
                      /\ Schedule(vocabList'[i + d]) = Schedule(vocabList[i])]_vars

\* with no outcome recorded, a word was learned and put before the loaded
\* items, a session was started and the theme changed
C10_Witness ==
    /\ budget.outcomes = AppSteps
    /\ Len(ingested) = 1
    /\ Len(vocabList) = 3
    /\ vocabList[1] = ingested[1].item
    /\ vocabList[3].meanings[1].srs_level = 8
    /\ isReviewing
    /\ theme = "blue-green"

\* the content of each Meaning of an item
Contents(item) == [k \in 1..Len(item.meanings) |-> item.meanings[k].content]

\* every item of the list is in the list after the step, in the same order
\* behind the items that are new, with its word and each of its Meanings
StaysIn(before, after) ==
    \E d \in 0..Len(after) :
        /\ Len(after) = Len(before) + d
        /\ \A i \in 1..Len(before) :
              /\ after[i + d].id = before[i].id
              /\ after[i + d].word = before[i].word
              /\ Contents(after[i + d]) = Contents(before[i])

\* C11: an item or a Meaning leaves the list only in a step of handleClearList
\* whose confirmation is accepted, which leaves the list empty; a step of
\* handleClearList whose confirmation is declined leaves the list as it is.
C11_OnlyClearAllRemoves ==
    [][/\ StaysIn(vocabList, vocabList') \/ (ClearList(TRUE) /\ vocabList' = <<>>)
       /\ ClearList(FALSE) => vocabList' = vocabList]_vars

\* a list on which an outcome had been recorded, and for which a word was
\* fetched, was cleared
C11_Witness ==
    /\ pc = "ready"
    /\ vocabList = <<>>
    /\ store = Serialize(<<>>)
    /\ updates = <<>>
    /\ Len(ingested) = 1
    /\ answered # {}

RECURSIVE InQueueOrder(_, _, _)
\* the list after the updates of the queue q, each applied at time t to the
\* list the one before it left
InQueueOrder(list, q, t) ==
    IF q = <<>> THEN list
    ELSE LET u == Head(q)
             next == CASE u.type = "quiz" ->
                            quizUpdater(list, u.wordId, u.meaningIndex, u.flag, t)
                       [] u.type = "prepend" -> u.list \o list
                       [] u.type = "set" -> u.list
                       [] OTHER -> list
         IN  InQueueOrder(next, Tail(q), t)

\* the update handleQuizComplete(wordId, meaningIndex, isCorrect) queues
OutcomeUpdate(wordId, meaningIndex, isCorrect) ==
    [type |-> "quiz", list |-> <<>>, wordId |-> wordId, meaningIndex |-> meaningIndex,
     flag |-> isCorrect, text |-> ""]

\* C12: the list a render commits is the list before it with every queued
\* update applied, one after another in queue order: the updates that wait (the
\* item a fetch prepends) and the outcome of the handler that renders.  When an
\* outcome is recorded while the item of a fetch waits in the queue, the list
\* committed has both the new item and the outcome.
C12_UpdatesInQueueOrder ==
    [][/\ (Render /\ pc' = "ready") => vocabList' = InQueueOrder(vocabList, updates, now)
       /\ \A p \in Positions(vocabList) : \A c \in BOOLEAN :
             (CardAnswer(p[1], p[2] - 1, c) /\ pc' = "ready")
             => /\ vocabList' = InQueueOrder(vocabList,
                                   Append(updates, OutcomeUpdate(vocabList[p[1]].id, p[2] - 1, c)),
                                   now)
                /\ (\E n \in 1..Len(updates) : updates[n].type = "prepend")
                   => /\ Len(vocabList') = Len(vocabList) + 1
                      /\ vocabList'[1].id = ingested[Len(ingested)].item.id
                      /\ LET old == vocabList[p[1]].meanings[p[2]].srs_level
                             new == vocabList'[p[1] + 1].meanings[p[2]]
                         IN  IF c
                             THEN /\ new.srs_level = (IF old < 8 THEN old + 1 ELSE 8)
                                  /\ new.next_review_date
                                        = now + HoursOfLevel(new.srs_level) * 60 * 60
                             ELSE /\ new.srs_level = (IF old > 0 THEN old - 1 ELSE 0)
                                  /\ new.next_review_date = now + FiveMinutesMs]_vars

\* two correct outcomes on the same Meaning and the item of a fetch are all
\* in the list
C12_Witness ==
    /\ pc = "ready"
    /\ updates = <<>>
    /\ budget.outcomes = MaxOutcomes - 2
    /\ Len(ingested) = 1
    /\ Len(vocabList) = 2
    /\ vocabList[1].id = ingested[1].item.id
    /\ answered = {<<vocabList[2].id, 0>>}
    /\ vocabList[2].meanings[1].srs_level = 4

\* fetchVocabData fails in this step: the content request is rejected, its
\* text is not JSON, it has no meanings array or an empty one, or the 30 s
\* timer wins the race
FetchFails ==
    \/ FetchTimesOut
    \/ \E r \in {"reject", "notjson", "nomeanings", "empty"} : FetchSettles(r)

\* C13: a step in which fetchVocabData fails leaves the list and what is stored
\* as they are, queues no update of the list, and queues an error message.
C13_FailedFetchKeepsList ==
    [][FetchFails =>
          /\ vocabList' = vocabList
          /\ store' = store
          /\ ingested' = ingested
          /\ Len(updates') > Len(updates)
          /\ SubSeq(updates', 1, Len(updates)) = updates
          /\ \A n \in (Len(updates) + 1)..Len(updates') :
                updates'[n].type \notin {"set", "quiz", "prepend"}
          /\ \E n \in (Len(updates) + 1)..Len(updates') :
                updates'[n].type = "error" /\ updates'[n].text # "none"]_vars

\* the only fetch of the run timed out: its error is shown, loading is off and
\* the list is the one the run started with
C13_Witness ==
    /\ pc = "ready"
    /\ budget.learns = MaxLearn - 1
    /\ fetch.state # "pending"
    /\ updates = <<>>
    /\ error = "timeout"
    /\ ~isLoading
    /\ ingested = <<>>
    /\ answered = {}
    /\ Len(vocabList) = 1
    /\ vocabList[1].word = "cat"

\* the setVocabList(list) updates of a queue
SetUpdates(q) == LET IsSet(u) == u.type = "set" IN SelectSeq(q, IsSet)

\* a persisted meaning that is well formed but for its scheduling fields
WellFormed(m) == m.shape = "ok"

\* the persisted items that are well formed and have a well-formed meaning
KeptItems(items) ==
    LET Good(x) == x.shape = "ok" /\ \E k \in 1..Len(x.meanings) : WellFormed(x.meanings[k])
    IN  SelectSeq(items, Good)

\* C14: the load effect that reads a persisted array passes to setVocabList
\* the well-formed persisted Meanings, each with its persisted srs_level when
\* it carries one and 0 when it does not, and with its persisted
\* next_review_date when it carries one and the time of the load when it does
\* not.
C14_LoadKeepsSchedules ==
    [][(MountEffects /\ store.kind = "json" /\ store.isArray) =>
          /\ SetUpdates(updates') # <<>>
          /\ LET loaded == SetUpdates(updates')[1].list
                 kept == KeptItems(store.items)
             IN  /\ Len(loaded) = Len(kept)
                 /\ \A i \in 1..Len(kept) :
                       LET wf == SelectSeq(kept[i].meanings, WellFormed) IN
                       /\ Len(loaded[i].meanings) = Len(wf)
                       /\ \A k \in 1..Len(wf) :
                             /\ loaded[i].meanings[k].content = wf[k].content
                             /\ loaded[i].meanings[k].srs_level
                                   = (IF wf[k].hasLevel THEN wf[k].srs_level ELSE 0)
                             /\ loaded[i].meanings[k].next_review_date
                                   = (IF wf[k].hasDate THEN wf[k].next_review_date
                                      ELSE now)]_vars

ValidTimestamp(d) == d \in Nat

\* the dates handleQuizComplete can give at time t
DatesSetAt(t) == {t + FiveMinutesMs} \cup {t + HoursOfLevel(l) * 60 * 60 : l \in 1..8}

\* C16: in every state the next_review_date of every Meaning of the list is a
\* finite number, and a step that changes the srs_level of a Meaning gives it
\* in the same step a next_review_date computed from the time of the step.
C16_DatesValid ==
    /\ [](\A p \in Positions(vocabList) :
             ValidTimestamp(vocabList[p[1]].meanings[p[2]].next_review_date))
    /\ [][\A p \in Positions(vocabList) :
             (/\ p \in Positions(vocabList')
              /\ Len(vocabList') = Len(vocabList)
              /\ vocabList'[p[1]].id = vocabList[p[1]].id
              /\ NewLevel(p) # OldLevel(p))
             => NewDate(p) \in DatesSetAt(now)]_vars

\* the items of a list all of whose Meanings have a level of 6 or more
AllAtThreshold(list) ==
    {i \in 1..Len(list) :
        \A m \in {list[i].meanings[k] : k \in 1..Len(list[i].meanings)} :
            m.content # "hole" => (m.srs_level \in Nat /\ ~(m.srs_level < 6))}

\* C17: masteredWords is the number of items of the list all of whose Meanings
\* have srs_level >= 6, and inProgressWords the number of the other items.
C17_MasteryCounts ==
    /\ masteredWords(vocabList) = Cardinality(AllAtThreshold(vocabList))
    /\ inProgressWords(vocabList)
          = Cardinality((1..Len(vocabList)) \ AllAtThreshold(vocabList))
    /\ \A i \in 1..Len(vocabList) :
          isMastered(vocabList[i]) <=> i \in AllAtThreshold(vocabList)

\* after a correct answer took a Meaning from level 5 to 6 and an incorrect
\* one took another from 6 to 5, one item of two meanings is mastered and the
\* item with a Meaning at 5 and one at 8 is not
C17_Witness ==
    /\ budget.outcomes = MaxOutcomes - 2
    /\ Len(vocabList) = 2
    /\ masteredWords(vocabList) = 1
    /\ inProgressWords(vocabList) = 1
    /\ Len(vocabList[1].meanings) = 2
    /\ vocabList[1].meanings[1].srs_level = 6
    /\ vocabList[1].meanings[1].next_review_date = now + 336 * 60 * 60
    /\ vocabList[1].meanings[2].srs_level = 8
    /\ Len(vocabList[2].meanings) = 2
    /\ vocabList[2].meanings[1].srs_level = 8
    /\ vocabList[2].meanings[2].srs_level = 5
    /\ vocabList[2].meanings[2].next_review_date = now + FiveMinutesMs

\* the words as written in the lists and in the input, without the spaces
\* around them and without their letter case
Folded(w) ==
    CASE w \in {"Cat", "cat"} -> "CAT"
      [] w \in {"Dog", "dog", " dog "} -> "DOG"
      [] OTHER -> w

\* C18: the list never holds two items whose words are equal ignoring case,
\* and a request for a word that an item of the list already has, in any
\* letter case, starts no fetch, does not turn loading on and leaves the list
\* and the queue of updates as they are.
C18_NoDuplicateWords ==
    /\ [](\A i, j \in 1..Len(vocabList) :
             Folded(vocabList[i].word) = Folded(vocabList[j].word) => i = j)
    /\ [][\A w \in RepeatedWords :
             (/\ LearnWord(w)
              /\ \E i \in 1..Len(vocabList) : Folded(vocabList[i].word) = Folded(w))
             => /\ vocabList' = vocabList
                /\ fetch' = fetch
                /\ isLoading' = isLoading
                /\ updates' = updates
                /\ store' = store
                /\ budget' = budget]_vars

\* two words were fetched one after the other and are in the list, where
\* every word of the input is now a word the list has
C18_Witness ==
    /\ pc = "ready"
    /\ ~isLoading
    /\ updates = <<>>
    /\ Len(ingested) = 2
    /\ Len(vocabList) = 2
    /\ vocabList[1].word = "dog"
    /\ vocabList[2].word = "Cat"
    /\ \A w \in RepeatedWords :
          \E i \in 1..Len(vocabList) : Folded(vocabList[i].word) = Folded(w)

\* C19: after validateApiResponse returns, every meaning whose options are
\* an array, of any length, has its correct_answer among the options, and as
\* many options as before the call.
C19_CorrectAnswerAmongOptions ==
    [][(Validate /\ validation'.result = "returned") =>
          \A k \in 1..Len(validation.data.meanings) :
             LET before == validation.data.meanings[k]
                 after == validation'.data.meanings[k]
             IN  before.kind = "array" =>
                    /\ \E n \in 1..Len(after.options.elements) :
                          after.options.elements[n] = after.correct_answer
                    /\ Len(after.options.elements) = Len(before.options.elements)]_vars

\* C20: whenever isLoading is true, a later state has isLoading false on a
\* page that is still rendered, where the input and the button are enabled
\* again: after a response that gives a word, after one that fails and after
\* the timeout.
C20_LoadingEnds == isLoading ~> (~isLoading /\ pc = "ready" /\ fetch.state # "pending")

\* a first request gave a word and a second one timed out: both ended with
\* loading turned off
C20_Witness ==
    /\ pc = "ready"
    /\ ~isLoading
    /\ updates = <<>>
    /\ budget.learns = MaxRequests - 2
    /\ Len(ingested) = 1
    /\ Len(vocabList) = 1
    /\ vocabList[1].word = "Cat"
    /\ error = "timeout"
    /\ fetch.state = "response-left"

\* C21: at every moment the due count shown on the Review button is the
\* number of Meanings of the list that are due at that moment, so that the
\* button opens the review prompt as soon as a Meaning has become due.
C21_DueCountCurrent ==
    /\ [](pc = "ready" => wordsForReviewCount = Len(collectDue(vocabList, now)))
    /\ [][(ReviewButton /\ Len(collectDue(vocabList, now)) > 0) => showReviewPrompt']_vars

\* C22: whenever a review session is mounted and is not complete, its item
\* list is not empty and its current index addresses one of the items.
C22_SessionHasCurrentItem ==
    (pc = "ready" /\ isReviewing /\ ~session.isSessionComplete)
    => /\ Len(reviewItems) > 0
       /\ session.currentIndex >= 0
       /\ session.currentIndex < Len(reviewItems)

\* an outcome is recorded in the session in this step
SessionRecords == \E c \in BOOLEAN : SessionAnswer(c)

\* C23: in a mounted session of n items an outcome is recorded only for the
\* item shown, and only while no outcome is recorded for it yet; the next
\* item is shown only after the outcome of the item before it, one index
\* further; and the session becomes complete exactly when the outcome of its
\* n-th item has been recorded.  Hence one outcome per item, in order.
C23_OneOutcomePerItem ==
    [][(isReviewing /\ isReviewing' /\ pc = "ready") =>
          /\ SessionRecords =>
                /\ session.timers = <<>>
                /\ session.currentIndex < Len(reviewItems)
                /\ answered' = answered \cup
                      {<<reviewItems[session.currentIndex + 1].wordId,
                         reviewItems[session.currentIndex + 1].meaningIndex>>}
          /\ session'.currentIndex # session.currentIndex =>
                /\ session.timers = <<[currentIndex |-> session.currentIndex,
                                       length |-> Len(reviewItems)]>>
                /\ session'.currentIndex = session.currentIndex + 1
                /\ session'.currentIndex < Len(reviewItems')
                /\ ~session'.isComplete
          /\ (session'.isSessionComplete /\ ~session.isSessionComplete) =>
                /\ session.currentIndex = Len(reviewItems) - 1
                /\ session.timers = <<[currentIndex |-> session.currentIndex,
                                       length |-> Len(reviewItems)]>>
          /\ (SessionTimer /\ session.currentIndex = Len(reviewItems) - 1) =>
                session'.isSessionComplete
          /\ (session.timers # <<>> /\ ~session.isSessionComplete) =>
                Head(session.timers).length = Len(reviewItems')]_vars

\* C24: after the quiz on a card is answered, the QuizContainer of that card
\* is in its completed state in the page rendered with the recorded outcome,
\* and stays so as long as the list is not replaced: no second answer can be
\* given for that Meaning on its card.
C24_CardStaysComplete ==
    [][\A p \in Positions(vocabList) : \A c \in BOOLEAN :
          (CardAnswer(p[1], p[2] - 1, c) /\ pc' = "ready")
          => /\ <<vocabList[p[1]].id, p[2] - 1>> \in cardsComplete'
             /\ <<vocabList[p[1]].id, p[2] - 1>> \notin answered]_vars

\* the Meaning of the list that the item shown by the session names
ShownPositions ==
    IF session.currentIndex < Len(reviewItems)
    THEN {p \in Positions(vocabList) :
             /\ vocabList[p[1]].id = reviewItems[session.currentIndex + 1].wordId
             /\ p[2] - 1 = reviewItems[session.currentIndex + 1].meaningIndex}
    ELSE {}

\* C25: an outcome recorded in a session gives the Meaning the level that
\* follows the level it has in the list when the outcome is recorded, whatever
\* level the ReviewItem of the session holds: an outcome recorded on the card
\* after the session started is kept.
C25_SessionOutcomeOnCurrentLevel ==
    [][\A c \in BOOLEAN :
          (SessionAnswer(c) /\ pc' = "ready") =>
             \A p \in ShownPositions :
                /\ NewLevel(p) =
                      (IF c THEN (IF OldLevel(p) + 1 < 8 THEN OldLevel(p) + 1 ELSE 8)
                       ELSE (IF OldLevel(p) - 1 > 0 THEN OldLevel(p) - 1 ELSE 0))
                /\ (~c \/ NewLevel(p) > 0) =>
                      NewDate(p) = (IF c THEN now + HoursOfLevel(NewLevel(p)) * 60 * 60
                                    ELSE now + FiveMinutesMs)]_vars

\* a session was started on a Meaning of level 2, a correct outcome on its
\* card took it to 3, and the correct outcome of the session took it to 4
C25_Witness ==
    /\ pc = "ready"
    /\ isReviewing
    /\ session.isComplete
    /\ session.currentIndex = 0
    /\ Len(reviewItems) = 1
    /\ reviewItems[1].meaning.srs_level = 2
    /\ budget.outcomes = MaxOutcomes - 2
    /\ \E p \in ShownPositions :
          /\ vocabList[p[1]].meanings[p[2]].srs_level = 4
          /\ vocabList[p[1]].meanings[p[2]].next_review_date = now + 72 * 60 * 60

\* the updates a step adds to the queue that add an item or show an error
EffectsQueued ==
    IF Len(updates') > Len(updates)
    THEN {n \in (Len(updates) + 1)..Len(updates') :
             \/ updates'[n].type \in {"prepend", "set", "quiz"}
             \/ updates'[n].type = "error" /\ updates'[n].text # "none"}
    ELSE {}

\* C26: each request has one effect.  An item or an error is queued only by
\* the step that ends a pending request, which queues exactly one of them: the
\* item when the response comes first, the timeout error when the timer fires
\* first.  The loser of the race, settling later, queues nothing and changes
\* neither the list nor the error.
C26_OneEffectPerRequest ==
    [][/\ EffectsQueued # {} => (fetch.state = "pending" /\ fetch'.state # "pending")
       /\ (fetch.state = "pending" /\ fetch'.state # "pending") =>
             /\ Cardinality(EffectsQueued) = 1
             /\ \A n \in EffectsQueued :
                   IF now >= fetch.started + TimeoutMs
                   THEN updates'[n].type = "error" /\ updates'[n].text = "timeout"
                   ELSE updates'[n].type \in {"prepend", "error"}
             /\ fetch'.state = (IF now >= fetch.started + TimeoutMs
                                THEN "response-left" ELSE "timer-left")
       /\ fetch.state \in {"timer-left", "response-left"} =>
             /\ fetch'.state \in {fetch.state, "idle", "pending"}
             /\ fetch'.state = "pending" => \E w \in RepeatedWords : LearnWord(w)
             /\ fetch'.state = "idle" =>
                   /\ vocabList' = vocabList
                   /\ error' = error
                   /\ updates' = updates
                   /\ ingested' = ingested
                   /\ store' = store
                   /\ isLoading' = isLoading]_vars

\* a request got its response; a later request timed out and its response
\* came after the timeout: the list has one item, the page one error
C26_Witness ==
    /\ pc = "ready"
    /\ fetch = NoFetch
    /\ updates = <<>>
    /\ ~isLoading
    /\ budget.learns = MaxRequests - 2
    /\ Len(ingested) = 1
    /\ Len(vocabList) = 1
    /\ vocabList[1] = ingested[1].item
    /\ error = "timeout"

\* C27: handleQuizComplete called for the Meaning at position p leaves the
\* page rendered and changes nothing of the list but the srs_level and the
\* next_review_date of that Meaning: the items, their order, ids and words,
\* the number of Meanings of each item, every other Meaning and the content of
\* the Meaning itself are as before.
C27_OneMeaningChanges ==
    [][\A p \in Positions(vocabList) : \A c \in BOOLEAN :
          CardAnswer(p[1], p[2] - 1, c) =>
             /\ pc' = "ready"
             /\ Len(vocabList') = Len(vocabList)
             /\ \A i \in 1..Len(vocabList) :
                   /\ vocabList'[i].id = vocabList[i].id
                   /\ vocabList'[i].word = vocabList[i].word
                   /\ Len(vocabList'[i].meanings) = Len(vocabList[i].meanings)
             /\ \A q \in Positions(vocabList) :
                   q # p => vocabList'[q[1]].meanings[q[2]] = vocabList[q[1]].meanings[q[2]]
             /\ vocabList'[p[1]].meanings[p[2]].content
                   = vocabList[p[1]].meanings[p[2]].content]_vars

\* C28: right after an outcome is recorded for a Meaning, correct or not and
\* whatever its level, its next_review_date is a time at least 5 minutes
\* after the outcome, and the Meaning is not in the due collection of that
\* instant.
C28_NotDueAfterOutcome ==
    [][\A p \in Positions(vocabList) : \A c \in BOOLEAN :
          RecordedAt(p, c, ScheduleLevels) =>
             /\ ValidTimestamp(NewDate(p))
             /\ NewDate(p) >= now + 5 * 60
             /\ \A j \in 1..Len(collectDue(vocabList', now)) :
                   ~(/\ collectDue(vocabList', now)[j].wordId = vocabList[p[1]].id
                     /\ collectDue(vocabList', now)[j].meaningIndex = p[2] - 1)]_vars

\* C29: the srs_level of a Meaning never changes in a step taken while its
\* next_review_date is later than now.
C29_OnlyDueChange ==
    [][\A p \in Positions(vocabList) :
          (/\ p \in Positions(vocabList')
           /\ vocabList'[p[1]].id = vocabList[p[1]].id
           /\ NewLevel(p) # OldLevel(p))
          => LessEq(vocabList[p[1]].meanings[p[2]].next_review_date, now)]_vars

\* C29, as the code has it: an outcome recorded in a review session is for an
\* item of the due collection the session was built from, whose
\* next_review_date, as the item holds it, is not later than the time of the
\* outcome; the quiz of a vocabulary card records outcomes for its Meaning
\* whether it is due or not.
C29_SessionOutcomesWereDue ==
    [][\A c \in BOOLEAN :
          SessionAnswer(c) =>
             /\ session.currentIndex < Len(reviewItems)
             /\ LessEq(reviewItems[session.currentIndex + 1].meaning.next_review_date, now)
             /\ \E j \in 1..Len(allDueMeanings) :
                   allDueMeanings[j] = reviewItems[session.currentIndex + 1]]_vars

\* an outcome was recorded on the card of a Meaning that was not due, and an
\* outcome was recorded in a session for the other Meaning of the item, which
\* was due when the session was built
C29_Witness ==
    /\ pc = "ready"
    /\ isReviewing
    /\ session.isComplete
    /\ now = Start
    /\ Len(reviewItems) = 1
    /\ reviewItems[1].meaningIndex = 1
    /\ reviewItems[1].meaning.next_review_date = Start - 100
    /\ answered = {<<reviewItems[1].wordId, 0>>, <<reviewItems[1].wordId, 1>>}
    /\ Len(vocabList) = 1
    /\ vocabList[1].meanings[1].srs_level = 5
    /\ vocabList[1].meanings[1].next_review_date = now + 168 * 60 * 60
    /\ vocabList[1].meanings[2].srs_level = 1

\* C30: from mount onward the value under 'vocabList' is the one persisted
\* before mount or the serialization of a list loaded into memory: the mount
\* effects, run once or twice, leave a persisted array with items the load
\* keeps either as it was or as the serialization of the list loaded from it,
\* and every later step leaves the store as it was or as the serialization of
\* the list in memory.
C30_PersistedListKept ==
    [][/\ (/\ pc = "boot"
           /\ store.kind = "json"
           /\ store.isArray
           /\ migratedList(store.items, now) # <<>>)
          => store' \in {store, Serialize(migratedList(store.items, now))}
       /\ pc = "ready" => store' \in {store, Serialize(vocabList')}]_vars

====
